---------------------------- MODULE Spec2Model ----------------------------
(***************************************************************************)
(* A model of the X431 diagnostic-log decoder (x431_to_csv.py and          *)
(* x431_to_csv_clean.py) and of the batch drivers (batch_convert.py and    *)
(* batch_convert_clean.py).                                                *)
(*                                                                         *)
(* A file is a sequence of bytes (0..255); the byte at file offset o is    *)
(* element o + 1 of the sequence.  A Python str is a sequence of code      *)
(* points.  An operation that can raise yields a record whose exc field    *)
(* names the exception ("none" when it returns normally).                  *)
(***************************************************************************)
EXTENDS Integers, Sequences, FiniteSets, TLC

(***************************************************************************)
(* Program constants.                                                      *)
(***************************************************************************)
OFF_PREAMBLE == 12
OFF_DATA_PTR == 284
OFF_CHANNELS == 308
OFF_SLOTS == 312
INDEX_BIAS == 9
HEADER_SECTIONS == 8
SLOT_STRIDE == 4
MIN_LENGTH == 3

(***************************************************************************)
(* String literals of the source, as code points.                          *)
(***************************************************************************)
STR_EMPTY == << >>
\* "Unknown"
STR_UNKNOWN == <<85, 110, 107, 110, 111, 119, 110>>
\* "Num"
STR_NUM == <<78, 117, 109>>
\* "Row"
STR_ROW == <<82, 111, 119>>
\* "Channel_"
STR_CHANNEL == <<67, 104, 97, 110, 110, 101, 108, 95>>
\* "0"
STR_ZERO == <<48>>
\* ". "
STR_DOT == <<46, 32>>
\* " (" and ")"
STR_LPAR == <<32, 40>>
STR_RPAR == <<41>>
\* " [" and "]"
STR_LBRK == <<32, 91>>
STR_RBRK == <<93>>

(***************************************************************************)
(* struct.unpack_from: little-endian reads, struct.error out of bounds.    *)
(***************************************************************************)
InBounds(d, off, n) == off >= 0 /\ off + n <= Len(d)

read_uint8(d, off) == d[off + 1]

read_uint16(d, off) == d[off + 1] + 256 * d[off + 2]

read_uint32(d, off) ==
    d[off + 1] + 256 * d[off + 2] + 65536 * d[off + 3] + 16777216 * d[off + 4]

Raise(e) == [exc |-> e, val |-> << >>]

Return(v) == [exc |-> "none", val |-> v]

(***************************************************************************)
(* bytes.decode('utf-8', errors='ignore').  A well-formed sequence yields  *)
(* its code point; an ill-formed one is dropped up to the first byte that  *)
(* cannot continue it (at least one byte), and decoding resumes there.     *)
(***************************************************************************)
IsCont(b) == b >= 128 /\ b <= 191

\* Number of bytes the sequence led by b needs; 0 for a byte that leads none.
SeqLen(b) ==
    IF b < 128 THEN 1
    ELSE IF b < 194 THEN 0
    ELSE IF b < 224 THEN 2
    ELSE IF b < 240 THEN 3
    ELSE IF b < 245 THEN 4
    ELSE 0

\* Whether c may follow lead byte b as the second byte.
SecondOk(b, c) ==
    /\ IsCont(c)
    /\ (b = 224 => c >= 160)
    /\ (b = 237 => c <= 159)
    /\ (b = 240 => c >= 144)
    /\ (b = 244 => c <= 143)

\* Length of the longest valid prefix of the sequence starting at index i.
ValidPrefix(b, i) ==
    LET n == SeqLen(b[i])
        ok(k) == /\ i + k - 1 <= Len(b)
                 /\ IF k = 2 THEN SecondOk(b[i], b[i + 1]) ELSE IsCont(b[i + k - 1])
    IN  IF n <= 1 THEN 1
        ELSE IF ~ok(2) THEN 1
        ELSE IF n = 2 THEN 2
        ELSE IF ~ok(3) THEN 2
        ELSE IF n = 3 THEN 3
        ELSE IF ~ok(4) THEN 3
        ELSE 4

CodePoint(b, i, n) ==
    IF n = 1 THEN b[i]
    ELSE IF n = 2 THEN (b[i] - 192) * 64 + (b[i + 1] - 128)
    ELSE IF n = 3 THEN (b[i] - 224) * 4096 + (b[i + 1] - 128) * 64 + (b[i + 2] - 128)
    ELSE (b[i] - 240) * 262144 + (b[i + 1] - 128) * 4096
             + (b[i + 2] - 128) * 64 + (b[i + 3] - 128)

RECURSIVE DecodeFrom(_, _)
DecodeFrom(b, i) ==
    IF i > Len(b) THEN << >>
    ELSE LET n == SeqLen(b[i])
             k == ValidPrefix(b, i)
         IN  IF n # 0 /\ k = n
             THEN <<CodePoint(b, i, n)>> \o DecodeFrom(b, i + n)
             ELSE DecodeFrom(b, i + k)

decode_utf8_ignore(b) == DecodeFrom(b, 1)

(***************************************************************************)
(* str(n) for n >= 0.                                                      *)
(***************************************************************************)
RECURSIVE str(_)
str(n) == IF n < 10 THEN <<48 + n>> ELSE str(n \div 10) \o <<48 + (n % 10)>>

(***************************************************************************)
(* str.strip() and str.replace(old, new).                                  *)
(***************************************************************************)
IsSpace(c) ==
    \/ c \in 9..13
    \/ c \in 28..32
    \/ c \in {133, 160, 5760, 8232, 8233, 8239, 8287, 12288}
    \/ c \in 8192..8202

RECURSIVE LStrip(_)
LStrip(s) == IF s # << >> /\ IsSpace(Head(s)) THEN LStrip(Tail(s)) ELSE s

RECURSIVE RStrip(_)
RStrip(s) ==
    IF s # << >> /\ IsSpace(s[Len(s)]) THEN RStrip(SubSeq(s, 1, Len(s) - 1)) ELSE s

strip(s) == RStrip(LStrip(s))

RECURSIVE replace(_, _, _)
replace(s, old, new) ==
    IF Len(s) < Len(old) THEN s
    ELSE IF SubSeq(s, 1, Len(old)) = old
         THEN new \o replace(SubSeq(s, Len(old) + 1, Len(s)), old, new)
         ELSE <<Head(s)>> \o replace(Tail(s), old, new)

\* The replacements dict of _clean_parameter_name, in insertion order:
\* 'B1S1', 'B2S1', 'A/F', 'A/C', 'Cat OT MF F/C', '#'.
replacements ==
    << << <<66, 49, 83, 49>>,
          <<40, 66, 97, 110, 107, 49, 32, 83, 101, 110, 115, 111, 114, 49, 41>> >>,
       << <<66, 50, 83, 49>>,
          <<40, 66, 97, 110, 107, 50, 32, 83, 101, 110, 115, 111, 114, 49, 41>> >>,
       << <<65, 47, 70>>, <<65, 105, 114, 47, 70, 117, 101, 108>> >>,
       << <<65, 47, 67>>, <<65, 67>> >>,
       << <<67, 97, 116, 32, 79, 84, 32, 77, 70, 32, 70, 47, 67>>,
          <<67, 97, 116, 97, 108, 121, 115, 116, 32, 77, 105, 115, 102, 105, 114, 101>> >>,
       << <<35>>, <<67, 111, 117, 110, 116>> >> >>

RECURSIVE ApplyReplacements(_, _)
ApplyReplacements(name, k) ==
    IF k > Len(replacements) THEN name
    ELSE ApplyReplacements(replace(name, replacements[k][1], replacements[k][2]), k + 1)

clean_parameter_name(name) ==
    IF name = << >> THEN STR_UNKNOWN ELSE ApplyReplacements(strip(name), 1)


(***************************************************************************)
(* _extract_channel_count.                                                 *)
(***************************************************************************)
extract_channel_count(d) ==
    IF ~InBounds(d, OFF_CHANNELS, 1) THEN Raise("struct.error")
    ELSE Return(read_uint8(d, OFF_CHANNELS) \div 4)

(***************************************************************************)
(* _extract_point_values: the preamble and the 8 skipped sections, then    *)
(* the loop over the length-prefixed strings.                              *)
(***************************************************************************)
RECURSIVE SkipSections(_, _, _)
SkipSections(d, off, n) ==
    IF n = 0 THEN Return(off)
    ELSE IF ~InBounds(d, off, 2) THEN Raise("struct.error")
    ELSE SkipSections(d, off + read_uint16(d, off), n - 1)

PointValuesStart(d) ==
    IF ~InBounds(d, OFF_PREAMBLE, 4) THEN Raise("struct.error")
    ELSE SkipSections(d, OFF_PREAMBLE + 4 + read_uint32(d, OFF_PREAMBLE),
                      HEADER_SECTIONS)

\* As LoopContinues, the sentinel test off by one: a prefix of 2 is let through.
LoopContinuesFrom2(d, off) ==
    /\ off < Len(d)
    /\ off + 2 <= Len(d)
    /\ read_uint16(d, off) >= MIN_LENGTH - 1
    /\ (off + 2) + read_uint16(d, off) - 2 <= Len(d)

\* The loop runs another full iteration from cursor off: the while test, the
\* two-byte test and the sentinel/fit test all let it through.
LoopContinues(d, off) ==
    /\ off < Len(d)
    /\ off + 2 <= Len(d)
    /\ read_uint16(d, off) >= MIN_LENGTH
    /\ (off + 2) + read_uint16(d, off) - 2 <= Len(d)

\* The cursor as the loop leaves it when it stops at off.
CursorAtExit(d, off) ==
    IF off < Len(d) /\ off + 2 <= Len(d) THEN off + 2 ELSE off

\* file_data[offset:offset + var16 - 3], offset being just past the prefix.
ValueBytes(d, offset, var16) == SubSeq(d, offset + 1, offset + var16 - 3)

\* The string one iteration appends, for the prefix at off.
PointValue(d, off) ==
    decode_utf8_ignore(ValueBytes(d, off + 2, read_uint16(d, off)))

\* As NextOffset, the second advance one byte short: the cursor is left on
\* the entry's last byte.
NextOffsetShort(d, off) == (off + 2) + (read_uint16(d, off) - 3)

\* The cursor after one iteration: offset += 2, then offset += var16 - 2.
NextOffset(d, off) == (off + 2) + (read_uint16(d, off) - 2)

(***************************************************************************)
(* The header resolver's lookup (the test at lines 96 and 108 of           *)
(* x431_to_csv.py, 117 and 127 of x431_to_csv_clean.py): a negative        *)
(* list index counts from the end of the list, IndexError beyond it.       *)
(***************************************************************************)
Hit(v) == [exc |-> "none", hit |-> TRUE, val |-> v]

Miss == [exc |-> "none", hit |-> FALSE, val |-> << >>]

ListIndex(list, j) ==
    IF j >= 0 /\ j < Len(list) THEN Hit(list[j + 1])
    ELSE IF j < 0 /\ Len(list) + j >= 0 THEN Hit(list[Len(list) + j + 1])
    ELSE [exc |-> "IndexError", hit |-> FALSE, val |-> << >>]

HeaderLookup(index, pv) ==
    IF index # 0 /\ (index - INDEX_BIAS) < Len(pv)
    THEN ListIndex(pv, index - INDEX_BIAS)
    ELSE Miss

\* One pass of n slots from off: the lookups in order, or the first exception.
RECURSIVE HeaderPass(_, _, _, _, _)
HeaderPass(d, pv, off, n, acc) ==
    IF n = 0 THEN Return(acc)
    ELSE IF ~InBounds(d, off, 2) THEN Raise("struct.error")
    ELSE LET r == HeaderLookup(read_uint16(d, off), pv)
         IN  IF r.exc # "none" THEN Raise(r.exc)
             ELSE HeaderPass(d, pv, off + SLOT_STRIDE, n - 1, Append(acc, r))

\* X431Parser._extract_column_names, the name of channel i (1-based).
VerboseName(i, first, second) ==
    str(i) \o STR_DOT
      \o (IF first.hit THEN first.val ELSE STR_UNKNOWN)
      \o (IF second.hit THEN STR_LPAR \o second.val \o STR_RPAR ELSE << >>)

\* X431CleanParser._extract_column_names: param_names[i], units[i], col_name.
ParamName(i, first) == IF first.hit THEN first.val ELSE STR_CHANNEL \o str(i)

UnitName(second) == IF second.hit THEN second.val ELSE STR_EMPTY

CleanName(param, unit) ==
    LET param_clean == clean_parameter_name(param)
        unit_clean == clean_parameter_name(unit)
    IN  IF unit_clean # << >> /\ unit_clean # param_clean /\ unit_clean # STR_UNKNOWN
        THEN param_clean \o STR_LBRK \o unit_clean \o STR_RBRK
        ELSE param_clean

extract_column_names(pol, d, cc, pv) ==
    LET p1 == HeaderPass(d, pv, OFF_SLOTS, cc, << >>)
        p2 == HeaderPass(d, pv, OFF_SLOTS + SLOT_STRIDE * cc, cc, << >>)
    IN  IF p1.exc # "none" THEN Raise(p1.exc)
        ELSE IF p2.exc # "none" THEN Raise(p2.exc)
        ELSE IF pol = "verbose"
        THEN Return(<<STR_NUM>> \o
                    [i \in 1..cc |-> VerboseName(i, p1.val[i], p2.val[i])])
        ELSE Return(<<STR_ROW>> \o
                    [i \in 1..cc |->
                        CleanName(ParamName(i, p1.val[i]), UnitName(p2.val[i]))])

(***************************************************************************)
(* _extract_data_rows: the section header, then one row per iteration.     *)
(***************************************************************************)
\* As TotalRows, rounding up: a trailing partial row is counted.
TotalRowsRoundedUp(records_count, cc) == ((records_count \div 4) + cc - 1) \div cc

\* (records_count // 4) // column_count, column_count >= 1.
TotalRows(records_count, cc) == (records_count \div 4) \div cc

\* Lines 119-126: the cursor at the first cell and total_rows, or the exception.
DataSection(d, cc) ==
    IF ~InBounds(d, OFF_DATA_PTR, 2) THEN Raise("struct.error")
    ELSE LET off == read_uint16(d, OFF_DATA_PTR) + 8
         IN  IF ~InBounds(d, off, 4) THEN Raise("struct.error")
             ELSE IF cc = 0 THEN Raise("ZeroDivisionError")
             ELSE Return([offset |-> off + 8,
                          total_rows |-> TotalRows(read_uint32(d, off), cc)])

\* As Cell, without the lower bound: an index below the bias counts from the
\* end of the table, as in the header passes.
CellNoLowerBound(d, pv, off) ==
    IF off + 2 > Len(d) THEN [text |-> STR_ZERO, offset |-> off]
    ELSE LET index == read_uint16(d, off) - INDEX_BIAS
         IN  [text |-> IF index < Len(pv) THEN ListIndex(pv, index).val
                       ELSE STR_ZERO,
              offset |-> off + SLOT_STRIDE]

\* The cell read with the cursor at off: its text and the cursor after it.
Cell(d, pv, off) ==
    IF off + 2 > Len(d) THEN [text |-> STR_ZERO, offset |-> off]
    ELSE LET index == read_uint16(d, off) - INDEX_BIAS
         IN  [text |-> IF 0 <= index /\ index < Len(pv) THEN pv[index + 1]
                       ELSE STR_ZERO,
              offset |-> off + SLOT_STRIDE]

\* The inner loop: n more cells appended to row, from cursor off.
RECURSIVE RowCells(_, _, _, _, _)
RowCells(d, pv, off, n, row) ==
    IF n = 0 THEN [row |-> row, offset |-> off]
    ELSE LET c == Cell(d, pv, off)
         IN  RowCells(d, pv, c.offset, n - 1, Append(row, c.text))

\* As DataRow, leaving the inner loop when the buffer is exhausted.
RECURSIVE RowCellsUntilEnd(_, _, _, _, _)
RowCellsUntilEnd(d, pv, off, n, row) ==
    IF n = 0 \/ off + 2 > Len(d) THEN [row |-> row, offset |-> off]
    ELSE LET c == Cell(d, pv, off)
         IN  RowCellsUntilEnd(d, pv, c.offset, n - 1, Append(row, c.text))

DataRowUntilEnd(d, pv, cc, off, row_num) ==
    RowCellsUntilEnd(d, pv, off, cc, <<str(row_num + 1)>>)

\* One iteration of the outer loop, for 0-based row_num.
DataRow(d, pv, cc, off, row_num) == RowCells(d, pv, off, cc, <<str(row_num + 1)>>)

(***************************************************************************)
(* sorted(directory.glob('**/*.x431')): file names are numbers.            *)
(***************************************************************************)
Min(S) == CHOOSE x \in S : \A y \in S : x <= y

RECURSIVE sorted(_)
sorted(S) == IF S = {} THEN << >> ELSE <<Min(S)>> \o sorted(S \ {Min(S)})

(***************************************************************************)
(* The state: the batch driver's, the current parser's fields and the      *)
(* locals of the stage in progress.                                        *)
(***************************************************************************)
VARIABLES
    policy,         \* "verbose": batch_convert.py, "clean": batch_convert_clean.py
    disk,           \* the .x431 files under the directory: name -> bytes
    pc,             \* the statement the program is at
    x431_files,     \* the sorted list of file names
    file_index,     \* position of the for loop in x431_files (1-based)
    success_count,
    error_count,
    log,            \* what convert_x431_to_csv printed, in order
    file_data,      \* parser.file_data
    column_count,   \* parser.column_count
    point_values,   \* parser.point_values
    offset,         \* the local cursor of the stage in progress
    values,         \* the local list point_values of _extract_point_values
    column_names,   \* the local column_names of parse
    total_rows,     \* the local total_rows of _extract_data_rows
    rows,           \* the local rows of _extract_data_rows
    exc             \* the exception in flight, "none" without one

vars == <<policy, disk, pc, x431_files, file_index, success_count, error_count,
          log, file_data, column_count, point_values, offset, values,
          column_names, total_rows, rows, exc>>

batch_vars == <<x431_files, file_index, success_count, error_count, log>>

parser_vars == <<file_data, column_count, point_values>>

local_vars == <<offset, values, column_names, total_rows, rows>>

InitOn(disks) ==
    /\ policy \in {"verbose", "clean"}
    /\ disk \in disks
    /\ pc = "batch"
    /\ x431_files = << >>
    /\ file_index = 0
    /\ success_count = 0
    /\ error_count = 0
    /\ log = << >>
    /\ file_data = << >>
    /\ column_count = 0
    /\ point_values = << >>
    /\ offset = 0
    /\ values = << >>
    /\ column_names = << >>
    /\ total_rows = 0
    /\ rows = << >>
    /\ exc = "none"

(***************************************************************************)
(* batch_convert / batch_convert_clean.                                    *)
(***************************************************************************)
\* Lines 31-40: enumerate and sort; return at once when nothing is found.
BatchStart ==
    /\ pc = "batch"
    /\ x431_files' = sorted(DOMAIN disk)
    /\ file_index' = 1
    /\ pc' = IF DOMAIN disk = {} THEN "done" ELSE "convert"
    /\ UNCHANGED <<policy, disk, success_count, error_count, log, exc>>
    /\ UNCHANGED <<parser_vars, local_vars>>

\* The for loop moves to the next file, or ends.
NextFile == IF file_index < Len(x431_files) THEN "convert" ELSE "done"

\* As ConvertBegin, the list the strings are collected in shared by all
\* parser instances: it is not emptied for a new file.
ConvertBeginSharedList ==
    /\ pc = "convert"
    /\ log' = Append(log, [event |-> "Processing", file |-> x431_files[file_index]])
    /\ file_data' = disk[x431_files[file_index]]
    /\ point_values' = << >>
    /\ column_count' = 0
    /\ offset' = 0
    /\ column_names' = << >>
    /\ total_rows' = 0
    /\ rows' = << >>
    /\ exc' = "none"
    /\ pc' = "channel_count"
    /\ UNCHANGED <<policy, disk, x431_files, file_index, success_count,
                   error_count, values>>

\* convert_x431_to_csv up to the parser's construction (__init__).
ConvertBegin ==
    /\ pc = "convert"
    /\ log' = Append(log, [event |-> "Processing", file |-> x431_files[file_index]])
    /\ file_data' = disk[x431_files[file_index]]
    /\ point_values' = << >>
    /\ column_count' = 0
    /\ offset' = 0
    /\ values' = << >>
    /\ column_names' = << >>
    /\ total_rows' = 0
    /\ rows' = << >>
    /\ exc' = "none"
    /\ pc' = "channel_count"
    /\ UNCHANGED <<policy, disk, x431_files, file_index, success_count, error_count>>

\* The CSV is written and the export reported; batch: success_count += 1.
ConvertSuccess ==
    /\ pc = "write_csv"
    /\ log' = Append(log, [event |-> "complete", file |-> x431_files[file_index]])
    /\ success_count' = success_count + 1
    /\ file_index' = file_index + 1
    /\ pc' = NextFile
    /\ UNCHANGED <<policy, disk, x431_files, error_count, exc>>
    /\ UNCHANGED <<parser_vars, local_vars>>

\* As ConvertError, without the batch loop's try: the exception ends the batch.
ConvertErrorAborts ==
    /\ pc = "except"
    /\ log' = Append(log, [event |-> "Error", file |-> x431_files[file_index]])
    /\ pc' = "done"
    /\ UNCHANGED <<policy, disk, x431_files, file_index, success_count,
                   error_count, exc>>
    /\ UNCHANGED <<parser_vars, local_vars>>

\* except Exception in convert_x431_to_csv (report, re-raise) and in the batch
\* loop (error_count += 1).
ConvertError ==
    /\ pc = "except"
    /\ log' = Append(log, [event |-> "Error", file |-> x431_files[file_index]])
    /\ error_count' = error_count + 1
    /\ file_index' = file_index + 1
    /\ pc' = NextFile
    /\ UNCHANGED <<policy, disk, x431_files, success_count, exc>>
    /\ UNCHANGED <<parser_vars, local_vars>>

(***************************************************************************)
(* parse(): the four stages, in the order of lines 156-159.                *)
(***************************************************************************)
ParseChannelCount ==
    /\ pc = "channel_count"
    /\ LET r == extract_channel_count(file_data)
       IN  IF r.exc # "none"
           THEN exc' = r.exc /\ pc' = "except" /\ UNCHANGED column_count
           ELSE column_count' = r.val /\ pc' = "point_values_start"
                  /\ UNCHANGED exc
    /\ UNCHANGED <<policy, disk, batch_vars, file_data, point_values, local_vars>>

PointValuesBegin ==
    /\ pc = "point_values_start"
    /\ LET r == PointValuesStart(file_data)
       IN  IF r.exc # "none"
           THEN exc' = r.exc /\ pc' = "except" /\ UNCHANGED offset
           ELSE offset' = r.val /\ pc' = "point_values" /\ UNCHANGED exc
    /\ UNCHANGED <<policy, disk, batch_vars, parser_vars,
                   values, column_names, total_rows, rows>>

ReadPointValue ==
    /\ pc = "point_values"
    /\ LoopContinues(file_data, offset)
    /\ values' = Append(values, PointValue(file_data, offset))
    /\ offset' = NextOffset(file_data, offset)
    /\ UNCHANGED <<policy, disk, pc, batch_vars, parser_vars,
                   column_names, total_rows, rows, exc>>

PointValuesReturn ==
    /\ pc = "point_values"
    /\ ~LoopContinues(file_data, offset)
    /\ offset' = CursorAtExit(file_data, offset)
    /\ point_values' = values
    /\ pc' = "column_names"
    /\ UNCHANGED <<policy, disk, batch_vars, file_data, column_count,
                   values, column_names, total_rows, rows, exc>>

\* As ParseColumnNames, the header stage storing the number of headers
\* (the ordinal column counted) as the channel count.
ParseColumnNamesRecounts ==
    /\ pc = "column_names"
    /\ LET r == extract_column_names(policy, file_data, column_count, point_values)
       IN  IF r.exc # "none"
           THEN exc' = r.exc /\ pc' = "except" /\ UNCHANGED <<column_names, column_count>>
           ELSE column_names' = r.val /\ column_count' = Len(r.val)
                  /\ pc' = "data_rows_start" /\ UNCHANGED exc
    /\ UNCHANGED <<policy, disk, batch_vars, file_data, point_values,
                   offset, values, total_rows, rows>>

ParseColumnNames ==
    /\ pc = "column_names"
    /\ LET r == extract_column_names(policy, file_data, column_count, point_values)
       IN  IF r.exc # "none"
           THEN exc' = r.exc /\ pc' = "except" /\ UNCHANGED column_names
           ELSE column_names' = r.val /\ pc' = "data_rows_start" /\ UNCHANGED exc
    /\ UNCHANGED <<policy, disk, batch_vars, parser_vars,
                   offset, values, total_rows, rows>>

DataRowsBegin ==
    /\ pc = "data_rows_start"
    /\ LET r == DataSection(file_data, column_count)
       IN  IF r.exc # "none"
           THEN exc' = r.exc /\ pc' = "except" /\ UNCHANGED <<offset, total_rows>>
           ELSE offset' = r.val.offset /\ total_rows' = r.val.total_rows
                  /\ pc' = "data_rows" /\ UNCHANGED exc
    /\ UNCHANGED <<policy, disk, batch_vars, parser_vars,
                   values, column_names, rows>>

\* As ReadDataRow, the clean policy leaving a placeholder cell empty.
ReadDataRowBlanks ==
    /\ pc = "data_rows"
    /\ Len(rows) < total_rows
    /\ LET r == DataRow(file_data, point_values, column_count, offset, Len(rows))
       IN  /\ rows' = Append(rows, IF policy = "verbose" THEN r.row
                                   ELSE [i \in 1..Len(r.row) |->
                                           IF r.row[i] = STR_ZERO THEN STR_EMPTY
                                           ELSE r.row[i]])
           /\ offset' = r.offset
    /\ UNCHANGED <<policy, disk, pc, batch_vars, parser_vars,
                   values, column_names, total_rows, exc>>

ReadDataRow ==
    /\ pc = "data_rows"
    /\ Len(rows) < total_rows
    /\ LET r == DataRow(file_data, point_values, column_count, offset, Len(rows))
       IN  rows' = Append(rows, r.row) /\ offset' = r.offset
    /\ UNCHANGED <<policy, disk, pc, batch_vars, parser_vars,
                   values, column_names, total_rows, exc>>

\* The row loop is over: _extract_data_rows and parse return.
ParseReturn ==
    /\ pc = "data_rows"
    /\ Len(rows) = total_rows
    /\ pc' = "write_csv"
    /\ UNCHANGED <<policy, disk, batch_vars, parser_vars, local_vars, exc>>

Next ==
    \/ BatchStart
    \/ ConvertBegin
    \/ ParseChannelCount
    \/ PointValuesBegin
    \/ ReadPointValue
    \/ PointValuesReturn
    \/ ParseColumnNames
    \/ DataRowsBegin
    \/ ReadDataRow
    \/ ParseReturn
    \/ ConvertSuccess
    \/ ConvertError

(***************************************************************************)
(* Input files.  A file is laid out as the decoder walks it: the fixed     *)
(* header (preamble length at 0x0c, data pointer at 0x11c, channel byte at *)
(* 0x134), the index slots of the two header passes from 0x138, the 8      *)
(* skipped sections, the string-table region and the data section.         *)
(***************************************************************************)
Zeros(n) == [i \in 1..n |-> 0]

LE16(v) == <<v % 256, (v \div 256) % 256>>

LE32(v) == <<v % 256, (v \div 256) % 256, (v \div 65536) % 256, (v \div 16777216) % 256>>

RECURSIVE Flatten(_)
Flatten(ss) == IF ss = << >> THEN << >> ELSE Head(ss) \o Flatten(Tail(ss))

\* All sequences over S of length at most n.
RECURSIVE SeqsUpTo(_, _)
SeqsUpTo(S, n) ==
    IF n = 0 THEN {<< >>}
    ELSE LET shorter == SeqsUpTo(S, n - 1)
         IN  shorter \cup {Append(q, x) : q \in {t \in shorter : Len(t) = n - 1}, x \in S}

FileHeader(var32, ptr, channel_byte) ==
    Zeros(OFF_PREAMBLE) \o LE32(var32) \o Zeros(OFF_DATA_PTR - OFF_PREAMBLE - 4)
      \o LE16(ptr) \o Zeros(OFF_CHANNELS - OFF_DATA_PTR - 2)
      \o <<channel_byte>> \o Zeros(OFF_SLOTS - OFF_CHANNELS - 1)

\* 4-byte slots: a 16-bit index and two reserved bytes.
SlotBytes(indices) == Flatten([i \in 1..Len(indices) |-> LE16(indices[i]) \o <<0, 0>>])

\* The 8 skipped sections, each its 2-byte length prefix alone.
SectionBytes == Flatten([i \in 1..HEADER_SECTIONS |-> LE16(2)])

\* One string-table entry: prefix L = len + 3, the payload, the terminator.
Entry(payload) == LE16(Len(payload) + 3) \o payload \o <<0>>

EntryBytes(payloads) == Flatten([i \in 1..Len(payloads) |-> Entry(payloads[i])])

\* The data section: records_count, 4 more bytes, the cell slots, a tail.
DataBytes(records_count, cells, tail) ==
    LE32(records_count) \o Zeros(4) \o SlotBytes(cells) \o tail

\* A file with the given channel byte, header slots, string-table region and
\* data section (none when data is empty: the pointer is then 0, which reads
\* records_count 0 from the header).
X431File(channel_byte, slots, table, data) ==
    LET sections == OFF_SLOTS + SLOT_STRIDE * Len(slots)
        data_at == sections + Len(SectionBytes) + Len(table)
    IN  FileHeader(sections - OFF_PREAMBLE - 4,
                   IF data = << >> THEN 0 ELSE data_at - 8,
                   channel_byte)
          \o SlotBytes(slots) \o SectionBytes \o table \o data

\* "Speed", "RPM", "km/h", "rpm"
NAMES4 ==
    << <<83, 112, 101, 101, 100>>, <<82, 80, 77>>,
       <<107, 109, 47, 104>>, <<114, 112, 109>> >>

\* then "", "A/F", "Air/Fuel", " ", "Unknown", "B1S1 #"
NAMES10 ==
    NAMES4 \o << << >>, <<65, 47, 70>>, <<65, 105, 114, 47, 70, 117, 101, 108>>,
                 <<32>>, <<85, 110, 107, 110, 111, 119, 110>>,
                 <<66, 49, 83, 49, 32, 35>> >>

SENTINEL == <<0, 0>>

\* Two channels, four names, two full rows: the end-to-end example.
GoodFile ==
    X431File(8, <<9, 10, 11, 12>>, EntryBytes(NAMES4) \o SENTINEL,
             DataBytes(16, <<9, 10, 11, 12>>, << >>))

\* One channel, no unit, three rows of which the buffer holds two.
ShortFile ==
    X431File(4, <<10, 0>>, EntryBytes(NAMES4) \o SENTINEL,
             DataBytes(12, <<9, 13>>, << >>))

\* The data pointer at 0x11c points past the end of the file.
BadPointerFile ==
    LET f == GoodFile
    IN  [i \in 1..Len(f) |-> IF i \in {OFF_DATA_PTR + 1, OFF_DATA_PTR + 2} THEN 255 ELSE f[i]]

\* Cut off before the channel byte.
CutFile == SubSeq(GoodFile, 1, OFF_DATA_PTR)

\* Directories holding one file, named 1.
OneFile(files) == {[n \in {1} |-> f] : f \in files}

\* Directories every specification starts from as well, so that each runs the
\* whole program: nothing found, a success, a failure, two files.
CommonDisks ==
    {<< >>, <<BadPointerFile, GoodFile>>} \cup OneFile({GoodFile, ShortFile, BadPointerFile})

(***************************************************************************)
(* Bounds of the input families.                                           *)
(***************************************************************************)
MaxEntries == 2
MaxIndex == 19
MaxCells == 3
MaxRecords == 4
MaxFiles == 4
MaxBeyond == 2

(***************************************************************************)
(* String-table inputs: up to MaxEntries entries, then one of the ways a   *)
(* table ends, then possibly one more well-formed entry.                   *)
(***************************************************************************)
\* "", "A", "BC", an invalid byte, U+00E9, "A" and a lead byte cut short,
\* "B", an invalid byte, "C"
Payloads ==
    {<< >>, <<65>>, <<66, 67>>, <<255>>, <<195, 169>>, <<65, 195>>, <<66, 255, 67>>}

\* buffer end, three sentinels, one stray byte, an entry that does not fit
Terminators == {<< >>, <<0, 0>>, <<2, 0>>, <<1, 0>>, <<7>>, <<9, 0, 65>>}

Trailers == {<< >>, Entry(<<90>>)}

TableFiles ==
    {X431File(4, <<9, 0>>, EntryBytes(ps) \o t \o tr, << >>) :
        ps \in SeqsUpTo(Payloads, MaxEntries), t \in Terminators, tr \in Trailers}

(***************************************************************************)
(* Header inputs: every pair of stored indices for one channel, over an    *)
(* empty, a 4-entry and a 10-entry table; some files of 0 and 2 channels,  *)
(* and one that ends inside the slots.                                     *)
(***************************************************************************)
Tables == {<< >>, NAMES4, NAMES10}

Indices == 0..MaxIndex \cup {65535}

HeaderFile(channel_byte, slots, names) ==
    X431File(channel_byte, slots, EntryBytes(names) \o SENTINEL,
             DataBytes(4 * (channel_byte \div 4),
                       [i \in 1..(channel_byte \div 4) |-> 10], << >>))

\* One channel; the file ends after the index of its pass-1 slot.  The
\* sections and the table are read from the zeros at offset 16.
SlotCutFile == FileHeader(0, 0, 4) \o LE16(0)

HeaderFiles ==
    {HeaderFile(4, <<a, b>>, names) : a \in Indices, b \in Indices, names \in Tables}
      \cup {HeaderFile(cb, << >>, names) : cb \in {0, 3}, names \in Tables}
      \cup {HeaderFile(cb, <<10, 12>>, NAMES4) : cb \in {5, 7}}
      \cup {SlotCutFile}
      \cup {HeaderFile(8, sl, names) :
              sl \in {<<9, 10, 11, 12>>, <<5, 0, 13, 9>>, <<14, 15, 16, 0>>,
                      <<18, 17, 15, 8>>},
              names \in Tables}

(***************************************************************************)
(* Data-section inputs: records_count up to 4 * MaxRecords + 3, up to      *)
(* MaxCells cell slots in the buffer, possibly one more byte.              *)
(***************************************************************************)
CellIndices == {0, 8, 9, 12, 13}

RecordCounts == {4 * k + j : k \in 0..MaxRecords, j \in {0, 3}}

RowFiles ==
    {X431File(4 * cc, [i \in 1..(2 * cc) |-> 8 + i], EntryBytes(NAMES4) \o SENTINEL,
              DataBytes(rc, cells, tail)) :
        cc \in {1, 2}, rc \in RecordCounts,
        cells \in SeqsUpTo(CellIndices, MaxCells), tail \in {<< >>, <<9>>}}

(***************************************************************************)
(* Batch inputs: any files of the catalogue under any names up to MaxFiles.*)
(***************************************************************************)
Catalogue == {GoodFile, ShortFile, BadPointerFile}

Directories == UNION {[S -> Catalogue] : S \in SUBSET (1..MaxFiles)}

(***************************************************************************)
(* Offset inputs: the end-to-end file with one of its offsets or lengths   *)
(* overwritten (the preamble length, the length of one skipped section,    *)
(* the data pointer), and every truncation of it.  The record count a      *)
(* pointer leads to is the file's last slot at most.                       *)
(***************************************************************************)
\* f with the bytes from file offset off on replaced by bs.
Patch(f, off, bs) ==
    [i \in 1..Len(f) |->
        IF i > off /\ i <= off + Len(bs) THEN bs[i - off] ELSE f[i]]

\* The offset of the length prefix of skipped section k (1-based) of GoodFile.
SectionOffset(k) == OFF_SLOTS + SLOT_STRIDE * 4 + 2 * (k - 1)

\* Lengths that leave the cursor before, at and up to MaxBeyond bytes past
\* the end of the file when read at offset off, and the largest length.
Jumps(off) ==
    {0, 2, 10, 65535} \cup {Len(GoodFile) - off + j : j \in (0 - 2)..MaxBeyond}

PreambleFiles ==
    {Patch(GoodFile, OFF_PREAMBLE, LE32(v - 4)) :
        v \in {4, 65535} \cup {Len(GoodFile) - OFF_PREAMBLE + j : j \in (0 - 2)..MaxBeyond}}

SectionFiles ==
    UNION {{Patch(GoodFile, SectionOffset(k), LE16(v)) : v \in Jumps(SectionOffset(k))} :
              k \in 1..HEADER_SECTIONS}

PointerFiles ==
    {Patch(GoodFile, OFF_DATA_PTR, LE16(v)) :
        v \in {0, 65535} \cup {Len(GoodFile) - 12 + j : j \in 0..(4 + MaxBeyond)}}

Truncations == {SubSeq(GoodFile, 1, n) : n \in 0..Len(GoodFile)}

OffsetFiles == PreambleFiles \cup SectionFiles \cup PointerFiles \cup Truncations

(***************************************************************************)
(* Specifications: one program, started on each family of inputs.          *)
(***************************************************************************)
InitTable == InitOn(OneFile(TableFiles) \cup CommonDisks)

InitHeaders == InitOn(OneFile(HeaderFiles) \cup CommonDisks)

InitRows == InitOn(OneFile(RowFiles) \cup CommonDisks)

InitBatch == InitOn(Directories \cup CommonDisks)

InitOffsets == InitOn(OneFile(OffsetFiles) \cup CommonDisks)

Init ==
    InitOn(OneFile(TableFiles \cup HeaderFiles \cup RowFiles \cup OffsetFiles)
             \cup Directories)

SpecTable == InitTable /\ [][Next]_vars

SpecHeaders == InitHeaders /\ [][Next]_vars

SpecRows == InitRows /\ [][Next]_vars

SpecBatch == InitBatch /\ [][Next]_vars

SpecOffsets == InitOffsets /\ [][Next]_vars

\* The string-table loop runs on: its body while the loop tests let it
\* through, its exit when they do not.
SpecTableFair ==
    InitTable /\ [][Next]_vars /\ WF_vars(ReadPointValue) /\ WF_vars(PointValuesReturn)

Spec == Init /\ [][Next]_vars

(***************************************************************************)
(* Quantities of the file format, read from the file itself.               *)
(***************************************************************************)
\* channel_count = (byte at offset 0x134) div 4
ChannelCount == file_data[OFF_CHANNELS + 1] \div 4

\* The stored index of header slot k (0-based; pass 2 follows pass 1).
SlotIndex(k) == read_uint16(file_data, OFF_SLOTS + 4 * k)

\* Resolution by the index-bias rule: table[i - 9], or no entry.
Resolves(i) == i # 0 /\ i - 9 >= 0 /\ i - 9 < Len(point_values)

Resolved(i) == point_values[(i - 9) + 1]

BiasLookup(i) == IF Resolves(i) THEN Hit(Resolved(i)) ELSE Miss

Primary(i) == SlotIndex(i - 1)

Secondary(i) == SlotIndex(ChannelCount + i - 1)

\* s begins with t.
StartsWith(s, t) == Len(s) >= Len(t) /\ SubSeq(s, 1, Len(t)) = t

\* The header stage has returned.
HeadersBuilt == pc \in {"data_rows_start", "data_rows", "write_csv"}

(***************************************************************************)
(* C1.  Whenever parse() returns a result, the header list has exactly     *)
(* channel_count + 1 entries and every data row has len(headers) cells;    *)
(* files of 0 channels are among those that return a result, so a parse    *)
(* never fails for dividing by a channel count of 0.                       *)
(***************************************************************************)
C1_HeaderRowShape ==
    /\ pc = "write_csv" =>
          /\ Len(column_names) = ChannelCount + 1
          /\ \A r \in 1..Len(rows) : Len(rows[r]) = Len(column_names)
    /\ pc = "except" => exc # "ZeroDivisionError"

(***************************************************************************)
(* C2.  In both header passes a stored index i yields table[i - 9] when    *)
(* i # 0 and 0 <= i - 9 < len(table), and the placeholder otherwise (so    *)
(* for every i in 1..8); no lookup raises, whatever the table's length,    *)
(* and no entry at another position is returned.                           *)
(***************************************************************************)
C2_IndexBias ==
    /\ pc = "except" => exc # "IndexError"
    /\ HeadersBuilt =>
          \A i \in 1..ChannelCount :
              column_names[i + 1] =
                  IF policy = "verbose"
                  THEN VerboseName(i, BiasLookup(Primary(i)), BiasLookup(Secondary(i)))
                  ELSE CleanName(ParamName(i, BiasLookup(Primary(i))),
                                 UnitName(BiasLookup(Secondary(i))))

(***************************************************************************)
(* The data section, read from the file itself.                            *)
(***************************************************************************)
\* p = the 16-bit value at offset 0x11c
DataPointer == read_uint16(file_data, OFF_DATA_PTR)

\* record_count = the 32-bit value at p + 8
RecordCount == read_uint32(file_data, DataPointer + 8)

\* The offset of cell c of row r, both 0-based.
CellOffset(r, c) == DataPointer + 16 + 4 * (r * ChannelCount + c)

\* Two bytes can be read at off.
Readable(off) == off + 2 <= Len(file_data)

(***************************************************************************)
(* C3.  Cell c of row r, when it lies inside the buffer, is resolved from  *)
(* the 16-bit value v at offset p + 16 + 4 * (r * channel_count + c): it   *)
(* is table[v - 9] when 0 <= v - 9 < len(table) and "0" otherwise, and no  *)
(* exception is raised once the rows are being decoded.                    *)
(***************************************************************************)
C3_CellResolution ==
    /\ \A r \in 0..(Len(rows) - 1) : \A c \in 0..(ChannelCount - 1) :
          Readable(CellOffset(r, c)) =>
              /\ Len(rows[r + 1]) = ChannelCount + 1
              /\ LET v == read_uint16(file_data, CellOffset(r, c))
                 IN  rows[r + 1][c + 2] =
                         IF 0 <= v - 9 /\ v - 9 < Len(point_values)
                         THEN point_values[(v - 9) + 1]
                         ELSE <<48>>
    /\ pc = "except" => rows = << >> /\ total_rows = 0

\* Reached: a second row whose cell is a table entry, after a first row
\* holding a "0" for an index below the bias and one past the table's end.
C3_Witness ==
    /\ pc = "write_csv"
    /\ ChannelCount = 1
    /\ Len(rows) >= 2
    /\ Readable(CellOffset(1, 0))
    /\ read_uint16(file_data, CellOffset(0, 0)) \in {8, 13}
    /\ rows[1][2] = <<48>>
    /\ read_uint16(file_data, CellOffset(1, 0)) = 12
    /\ rows[2][2] = point_values[4]

(***************************************************************************)
(* C5.  The number of rows returned is floor(floor(record_count / 4) /     *)
(* channel_count): the rows are all the whole groups of channel_count      *)
(* records and no more, so a trailing partial group gives no row, and      *)
(* that is no error.                                                       *)
(***************************************************************************)
C5_RowCount ==
    pc = "write_csv" =>
        /\ Len(rows) * ChannelCount <= RecordCount \div 4
        /\ RecordCount \div 4 < (Len(rows) + 1) * ChannelCount
        /\ \A r \in 1..Len(rows) : Len(rows[r]) = ChannelCount + 1

\* Reached: rows returned from a record_count that is no multiple of
\* channel_count * 4, with records left over after the last whole row.
C5_Witness ==
    /\ pc = "write_csv"
    /\ ChannelCount = 2
    /\ RecordCount % (ChannelCount * 4) # 0
    /\ (RecordCount \div 4) % ChannelCount # 0
    /\ Len(rows) >= 1

(***************************************************************************)
(* C6.  When the buffer ends inside the data section, no error is raised:  *)
(* every cell from the first one that has fewer than 2 bytes left is "0",  *)
(* in the current row and in every later one, and all total_rows rows are  *)
(* emitted, each led by its 1-based ordinal.                               *)
(***************************************************************************)
C6_TruncatedRows ==
    (pc = "write_csv" /\ ChannelCount > 0) =>
        /\ Len(rows) = (RecordCount \div 4) \div ChannelCount
        /\ \A r \in 0..(Len(rows) - 1) :
              /\ Len(rows[r + 1]) = ChannelCount + 1
              /\ r < 9 => rows[r + 1][1] = <<49 + r>>
              /\ \A c \in 0..(ChannelCount - 1) :
                    ~Readable(CellOffset(r, c)) => rows[r + 1][c + 2] = <<48>>

\* Reached: the buffer ends after the first cell of a two-cell row, that
\* cell resolved, and a later row is emitted too.
C6_Witness ==
    /\ pc = "write_csv"
    /\ ChannelCount = 2
    /\ Len(rows) >= 2
    /\ Readable(CellOffset(0, 0))
    /\ ~Readable(CellOffset(0, 1))
    /\ rows[1] = <<<<49>>, point_values[1], <<48>>>>
    /\ rows[2] = <<<<50>>, <<48>>, <<48>>>>

(***************************************************************************)
(* The string-table region, walked from the file itself: an entry is a     *)
(* 2-byte prefix L >= 3, L - 3 payload bytes and one more byte; the next   *)
(* prefix lies L bytes after the last.                                     *)
(***************************************************************************)
TableStart == PointValuesStart(file_data).val

Accepted(q) ==
    /\ Readable(q)
    /\ read_uint16(file_data, q) >= 3
    /\ q + read_uint16(file_data, q) <= Len(file_data)

\* The positions of the successive prefixes, the last being the first that
\* is no accepted entry.
RECURSIVE PrefixesFrom(_, _)
PrefixesFrom(q, acc) ==
    IF Accepted(q)
    THEN PrefixesFrom(q + read_uint16(file_data, q), Append(acc, q))
    ELSE Append(acc, q)

Prefixes == PrefixesFrom(TableStart, << >>)

SentinelAt(q) == Readable(q) /\ read_uint16(file_data, q) < 3

Payload(q) == SubSeq(file_data, q + 3, q + read_uint16(file_data, q) - 1)

IsAscii(b) == \A i \in 1..Len(b) : b[i] < 128

\* The string-table stage has returned.
TableBuilt == pc \in {"column_names", "data_rows_start", "data_rows", "write_csv"}

(***************************************************************************)
(* C4.  When the first prefix L < 3 of the string-table region is at       *)
(* position k, the table is exactly the payloads, in order, of the entries *)
(* before k (as text: an ASCII payload unchanged), nothing at or after k   *)
(* is appended, and the parse goes on without an error.                    *)
(***************************************************************************)
C4_SentinelStops ==
    /\ (TableBuilt /\ SentinelAt(Prefixes[Len(Prefixes)])) =>
          /\ Len(point_values) = Len(Prefixes) - 1
          /\ \A j \in 1..Len(point_values) :
                /\ point_values[j] = decode_utf8_ignore(Payload(Prefixes[j]))
                /\ IsAscii(Payload(Prefixes[j])) =>
                      point_values[j] = Payload(Prefixes[j])
    /\ pc = "point_values" =>
          exc = "none" /\ ENABLED (ReadPointValue \/ PointValuesReturn)

\* Reached: two entries ("A", "BC"), a sentinel, and a well-formed entry
\* after the sentinel that the table does not hold.
C4_Witness ==
    /\ pc = "column_names"
    /\ Len(Prefixes) = 3
    /\ SentinelAt(Prefixes[3])
    /\ Accepted(Prefixes[3] + 2)
    /\ point_values = <<<<65>>, <<66, 67>>>>

(***************************************************************************)
(* C7.  Verbose headers are "Num", then for channel i "{i}. {primary}",    *)
(* primary being the pass-1 lookup or "Unknown" for an invalid pass-1      *)
(* index, followed by " ({secondary})" exactly when the pass-2 index       *)
(* resolves to a table entry; for 2 channels over Speed, RPM, km/h, rpm    *)
(* with indices (9, 10) and (11, 12): Num, 1. Speed (km/h), 2. RPM (rpm).  *)
(***************************************************************************)
C7_VerboseHeaders ==
    (policy = "verbose" /\ HeadersBuilt) =>
        /\ Len(column_names) = ChannelCount + 1
        /\ column_names[1] = <<78, 117, 109>>
        /\ \A i \in 1..ChannelCount :
              column_names[i + 1] =
                  str(i) \o <<46, 32>>
                    \o (IF Resolves(Primary(i)) THEN Resolved(Primary(i))
                        ELSE <<85, 110, 107, 110, 111, 119, 110>>)
                    \o (IF Resolves(Secondary(i))
                        THEN <<32, 40>> \o Resolved(Secondary(i)) \o <<41>>
                        ELSE << >>)
        /\ (/\ ChannelCount = 2
            /\ point_values = NAMES4
            /\ <<Primary(1), Primary(2), Secondary(1), Secondary(2)>> = <<9, 10, 11, 12>>)
              => column_names =
                    << <<78, 117, 109>>,
                       <<49, 46, 32, 83, 112, 101, 101, 100, 32, 40, 107, 109, 47, 104, 41>>,
                       <<50, 46, 32, 82, 80, 77, 32, 40, 114, 112, 109, 41>> >>

(***************************************************************************)
(* C8.  A clean header is "{P} [{S}]" exactly when the pass-2 index        *)
(* resolves and the normalized secondary S is non-empty, differs from the  *)
(* normalized primary P and is not "Unknown"; otherwise (an invalid        *)
(* secondary index among the cases) it is P alone.                         *)
(***************************************************************************)
C8_CleanHeaders ==
    (policy = "clean" /\ HeadersBuilt) =>
        \A i \in 1..ChannelCount :
            LET P == clean_parameter_name(ParamName(i, BiasLookup(Primary(i))))
                S == clean_parameter_name(UnitName(BiasLookup(Secondary(i))))
            IN  column_names[i + 1] =
                    IF /\ Resolves(Secondary(i))
                       /\ S # << >>
                       /\ S # P
                       /\ S # <<85, 110, 107, 110, 111, 119, 110>>
                    THEN P \o <<32, 91>> \o S \o <<93>>
                    ELSE P

(***************************************************************************)
(* C9.  Under both policies a channel whose pass-1 index fails resolution  *)
(* is named "Unknown": the verbose header is "{i}. Unknown...", the clean  *)
(* header begins with "Unknown" and with no other placeholder.             *)
(***************************************************************************)
C9_UnknownPlaceholder ==
    HeadersBuilt =>
        \A i \in 1..ChannelCount :
            ~Resolves(Primary(i)) =>
                StartsWith(column_names[i + 1],
                           (IF policy = "verbose" THEN str(i) \o <<46, 32>> ELSE << >>)
                             \o <<85, 110, 107, 110, 111, 119, 110>>)

(***************************************************************************)
(* The batch's report, read from the log.                                  *)
(***************************************************************************)
IsStart(e) == e.event = "Processing"

IsError(e) == e.event = "Error"

Started == SelectSeq(log, IsStart)

Errors == SelectSeq(log, IsError)

(***************************************************************************)
(* C10.  The batch attempts every file found exactly once, in sorted       *)
(* order, whatever became of the earlier ones; it never stops before the   *)
(* last file; at the end success_count + error_count is the number of      *)
(* files found and error_count the number of conversions that raised       *)
(* (3 well-formed files and 1 broken one: 3 successes, 1 error).           *)
(***************************************************************************)
C10_BatchCompletes ==
    /\ pc = "convert" => ENABLED ConvertBegin
    /\ pc = "write_csv" => ENABLED ConvertSuccess
    /\ pc = "except" => ENABLED ConvertError
    /\ pc = "done" =>
          /\ Len(Started) = Cardinality(DOMAIN disk)
          /\ {Started[i].file : i \in 1..Len(Started)} = DOMAIN disk
          /\ \A i \in 1..Len(Started) : \A j \in 1..Len(Started) :
                i < j => Started[i].file < Started[j].file
          /\ success_count + error_count = Cardinality(DOMAIN disk)
          /\ error_count = Len(Errors)
          /\ {Errors[i].file : i \in 1..Len(Errors)}
                = {f \in DOMAIN disk : disk[f] = BadPointerFile}
          /\ error_count = Cardinality({f \in DOMAIN disk : disk[f] = BadPointerFile})

\* Reached: four files, the first of them broken, three successes after it.
C10_Witness ==
    /\ pc = "done"
    /\ Cardinality(DOMAIN disk) = 4
    /\ Errors # << >>
    /\ Errors[1].file = Started[1].file
    /\ success_count = 3
    /\ error_count = 1

(***************************************************************************)
(* The reads that header-derived offsets and lengths lead to.              *)
(***************************************************************************)
\* The preamble length and the 8 section prefixes can all be read.
SectionsReadable == PointValuesStart(file_data).exc = "none"

\* The first prefix of the string table, where the length of the last
\* skipped section leaves the cursor, lies inside the buffer.
TableInside == TableStart < Len(file_data)

\* Every index slot of the two header passes can be read.
SlotsReadable ==
    \A k \in 0..(2 * ChannelCount - 1) : Readable(OFF_SLOTS + SLOT_STRIDE * k)

\* The data pointer and the record count it leads to can be read.
RecordCountReadable ==
    /\ InBounds(file_data, OFF_DATA_PTR, 2)
    /\ InBounds(file_data, DataPointer + 8, 4)

(***************************************************************************)
(* C11.  A parse returns a result only if every header-derived offset and  *)
(* length kept its read inside the buffer: the preamble length, each of    *)
(* the 8 skipped section lengths (the last one leaving the cursor at or    *)
(* past the end of the buffer included), the header index slots, the data  *)
(* pointer and the record count; otherwise the parse fails with an error.  *)
(***************************************************************************)
C11_StructuralErrors ==
    pc = "write_csv" =>
        /\ InBounds(file_data, OFF_CHANNELS, 1)
        /\ SectionsReadable
        /\ TableInside
        /\ SlotsReadable
        /\ RecordCountReadable

(***************************************************************************)
(* parse() as a function of the policy and the bytes alone: the stage it   *)
(* ends in, the exception it raises ("none" when it returns) and what it   *)
(* has computed by then.                                                   *)
(***************************************************************************)
RECURSIVE TableFrom(_, _, _)
TableFrom(d, off, acc) ==
    IF LoopContinues(d, off)
    THEN TableFrom(d, NextOffset(d, off), Append(acc, PointValue(d, off)))
    ELSE acc

RECURSIVE RowsFrom(_, _, _, _, _, _)
RowsFrom(d, pv, cc, off, n, acc) ==
    IF Len(acc) >= n THEN acc
    ELSE LET r == DataRow(d, pv, cc, off, Len(acc))
         IN  RowsFrom(d, pv, cc, r.offset, n, Append(acc, r.row))

Outcome(stage, e, cc, pv, names, rs) ==
    [stage |-> stage, exc |-> e, column_count |-> cc, point_values |-> pv,
     column_names |-> names, rows |-> rs]

ParseOf(pol, d) ==
    LET c == extract_channel_count(d)
        s == PointValuesStart(d)
        pv == TableFrom(d, s.val, << >>)
        h == extract_column_names(pol, d, c.val, pv)
        ds == DataSection(d, c.val)
    IN  IF c.exc # "none"
        THEN Outcome("channel_count", c.exc, 0, << >>, << >>, << >>)
        ELSE IF s.exc # "none"
        THEN Outcome("point_values", s.exc, c.val, << >>, << >>, << >>)
        ELSE IF h.exc # "none"
        THEN Outcome("column_names", h.exc, c.val, pv, << >>, << >>)
        ELSE IF ds.exc # "none"
        THEN Outcome("data_rows", ds.exc, c.val, pv, h.val, << >>)
        ELSE Outcome("return", "none", c.val, pv, h.val,
                     RowsFrom(d, pv, c.val, ds.val.offset, ds.val.total_rows, << >>))

\* What the parser in progress has computed, as an outcome of the stage it
\* ended in (the header list is never empty once built).
Computed(stage) ==
    Outcome(stage, exc, column_count, point_values, column_names, rows)

FailedStage ==
    IF column_names # << >> THEN "data_rows"
    ELSE IF point_values # << >> \/ offset # 0 THEN "column_names"
    ELSE "early"

StageOrder ==
    {<<"channel_count", "point_values_start">>,
     <<"point_values_start", "point_values">>,
     <<"point_values", "column_names">>,
     <<"column_names", "data_rows_start">>,
     <<"data_rows_start", "data_rows">>,
     <<"data_rows", "write_csv">>}

InParse ==
    pc \in {"channel_count", "point_values_start", "point_values",
            "column_names", "data_rows_start", "data_rows"}

StageStep ==
    /\ (InParse /\ pc' # pc) => (<<pc, pc'>> \in StageOrder \/ pc' = "except")
    /\ InParse => file_data' = file_data
    /\ (InParse /\ column_count' # column_count) =>
          /\ pc = "channel_count"
          /\ column_names = << >> /\ rows = << >>
    /\ (InParse /\ point_values' # point_values) =>
          /\ pc = "point_values" /\ pc' = "column_names"
          /\ column_names = << >> /\ rows = << >>
    /\ pc \in {"column_names", "data_rows_start", "data_rows", "write_csv"} =>
          UNCHANGED <<file_data, column_count, point_values>>
    /\ (InParse /\ column_names' # column_names) => pc = "column_names"
    /\ (InParse /\ rows' # rows) => pc = "data_rows"

C13_StagesAndFrame == [][StageStep]_vars

\* Reached: a parse returned with two channels, a table of four strings,
\* headers and rows.
C13_Witness ==
    /\ pc = "write_csv"
    /\ column_count = 2
    /\ point_values = NAMES4
    /\ Len(column_names) = 3
    /\ Len(rows) = 2

(***************************************************************************)
(* C16.  On the same bytes the verbose and the clean parser compute the    *)
(* same channel count and the same string table, and end alike: both       *)
(* return the same rows, or both fail in the same stage (the row stage     *)
(* among them) with the same exception.  Only the header list differs.     *)
(***************************************************************************)
OtherPolicy == IF policy = "verbose" THEN "clean" ELSE "verbose"

RECURSIVE DecodeReplaceFrom(_, _)
DecodeReplaceFrom(b, i) ==
    IF i > Len(b) THEN << >>
    ELSE LET n == SeqLen(b[i])
             k == ValidPrefix(b, i)
         IN  IF n # 0 /\ k = n
             THEN <<CodePoint(b, i, n)>> \o DecodeReplaceFrom(b, i + n)
             ELSE <<65533>> \o DecodeReplaceFrom(b, i + k)

decode_utf8_replace(b) == DecodeReplaceFrom(b, 1)

(***************************************************************************)
(* C14.  Each accepted entry (prefix L >= 3 that fits) appends exactly one *)
(* string, its L - 3 payload bytes decoded with every invalid sequence     *)
(* replaced by U+FFFD (nothing dropped, no entry skipped), and leaves the  *)
(* cursor at the next prefix, L bytes after the last one.                  *)
(***************************************************************************)
C14_ReplacementDecoding ==
    /\ pc = "point_values" =>
          /\ Len(values) < Len(Prefixes)
          /\ offset = Prefixes[Len(values) + 1]
    /\ TableBuilt =>
          /\ Len(point_values) = Len(Prefixes) - 1
          /\ \A j \in 1..Len(point_values) :
                point_values[j] = decode_utf8_replace(Payload(Prefixes[j]))

(***************************************************************************)
(* C15.  The string-table loop terminates: an iteration that goes on       *)
(* appends one string and moves the cursor forward by L >= 3 bytes,        *)
(* staying inside the buffer; the loop is left only at a prefix L < 3, at  *)
(* an entry that does not fit, or with fewer than 2 bytes left; the        *)
(* strings number at most len(buffer) div 3; the loop is always left.      *)
(***************************************************************************)
LoopStep ==
    pc = "point_values" =>
        IF pc' = "point_values"
        THEN /\ read_uint16(file_data, offset) >= 3
             /\ offset' = offset + read_uint16(file_data, offset)
             /\ offset' <= Len(file_data)
             /\ Len(values') = Len(values) + 1
        ELSE /\ pc' = "column_names"
             /\ \/ SentinelAt(offset)
                \/ Readable(offset) /\ offset + read_uint16(file_data, offset) > Len(file_data)
                \/ ~Readable(offset)

LoopBound ==
    /\ pc = "point_values" => 3 * Len(values) <= Len(file_data)
    /\ TableBuilt => Len(point_values) <= Len(file_data) \div 3

C15_LoopTerminates ==
    /\ []LoopBound
    /\ [][LoopStep]_vars
    /\ (pc = "point_values") ~> (pc = "column_names")

\* Reached: the loop left after two strings, at an entry that does not fit.
C15_Witness ==
    /\ pc = "column_names"
    /\ Len(point_values) = 2
    /\ Accepted(Prefixes[1]) /\ Accepted(Prefixes[2])
    /\ Readable(Prefixes[3])
    /\ read_uint16(file_data, Prefixes[3]) >= 3
    /\ Prefixes[3] + read_uint16(file_data, Prefixes[3]) > Len(file_data)

=============================================================================
